---- MODULE Spec2Model ----
(***************************************************************************)
(* A model of src/src/per_test_config.rs: the per-test pipeline of ui_test *)
(* (TestConfig::run_test and the functions it calls).                      *)
(*                                                                         *)
(* Strings and byte vectors are sequences of one-character strings, paths  *)
(* are sequences of components, Option<T> is <<>> (None) or <<x>> (Some).  *)
(* A Vec is a sequence; Vec index i is sequence index i + 1.               *)
(***************************************************************************)
EXTENDS Integers, Sequences, FiniteSets, TLC

VARIABLES
    \* ---- the test's configuration: self.config and self.comments
    revision,                \* TestConfig::revision
    stderr_per_bitwidth,     \* any(|r| r.stderr_per_bitwidth)
    normalize_stderr,        \* the applicable revisions' rules, in order
    normalize_stdout,
    output_conflict_handling,\* config.output_conflict_handling
    compile_flags,           \* the applicable revisions' compile_flags, in order
    env_vars,                \* the applicable revisions' env_vars, in order
    target,                  \* config.target
    host_matches_target,     \* config.host_matches_target()
    stdin_exists,            \* whether the tested file has a .stdin file beside it
    aux_builds,              \* the applicable revisions' aux_builds, in order
    custom,                  \* the applicable revisions' custom flags, in order
    error_in_other_files,    \* the applicable revisions' foreign-file patterns
    error_matches,           \* the applicable revisions' ErrorMatch directives
    mode_result,             \* what self.mode() returns
    prefix_result,           \* what find_one("diagnostic_code_prefix") returns
    level_result,            \* what find_one("require_annotations_for_level") returns
    \* ---- the environment
    fs,                      \* the baseline files: path -> Option<bytes>
    \* ---- the run
    entry,                   \* the function the harness called
    pc,                      \* the position in it
    idx,                     \* the current loop's position (a sequence index)
    runs,                    \* the policies of the harness's earlier calls
    log,                     \* history: the steps run_test has taken, in order
    out_dir,                 \* config.out_dir
    aux_outcome,             \* what canonicalize and the coordinator answered last
    extra_args,              \* build_aux_files: extra_args
    cmd,                     \* the command
    output,                  \* run_command's Output: status, stdout, stderr
    diagnostics,             \* rustc_stderr::process's result
    messages,                \* check_annotations: the line buckets (working copy)
    messages_from_unknown_file_or_line,
    errors,                  \* check_test_result: errors
    checks_run,              \* the checks of check_test_result that have completed
    seen_error_match,
    diagnostic_code_prefix,
    lowest_annotation_level,
    required_annotation_level, \* Option: set once line 333 has run
    ctr_ret,                 \* what check_test_result returned
    result                   \* what the entry function returned

vars == <<revision, stderr_per_bitwidth, normalize_stderr, normalize_stdout,
          output_conflict_handling, compile_flags, env_vars, target,
          host_matches_target, stdin_exists, aux_builds, custom, error_in_other_files,
          error_matches, mode_result, prefix_result, level_result, fs, entry,
          pc, idx, runs, log, out_dir, aux_outcome, extra_args, cmd,
          output, diagnostics,
          messages, messages_from_unknown_file_or_line, errors, checks_run,
          seen_error_match, diagnostic_code_prefix, lowest_annotation_level,
          required_annotation_level,
          ctr_ret, result>>

configVars == <<revision, stderr_per_bitwidth, normalize_stderr,
                normalize_stdout, compile_flags, env_vars, target,
                host_matches_target, stdin_exists, aux_builds, custom,
                error_in_other_files,
                error_matches, mode_result, prefix_result, level_result>>

(***************************************************************************)
(* Bounds of the model.                                                    *)
(***************************************************************************)
MaxLine == 2        \* source lines carrying diagnostics: 1..MaxLine
MaxMsgs == 2        \* diagnostic messages of one run, over all locations
MaxDirs == 2        \* ErrorMatch directives of one test
MaxForeign == 1     \* foreign-file patterns of one test
MaxOut == 2         \* bytes of one captured output stream
MaxAux == 2         \* aux builds of one test
MaxRuns == 2        \* calls of check_test_output on one test file
MaxFlags == 2       \* custom flags of one test

(***************************************************************************)
(* Level: "The order on `Level` is such that `Error` is the highest        *)
(* level."                                                                 *)
(***************************************************************************)
Help == 0
Note == 1
Warn == 2
Error == 3

None == <<>>
Some(x) == <<x>>

\* Vec::remove(i), i a sequence index
VecRemove(s, i) == SubSeq(s, 1, i - 1) \o SubSeq(s, i + 1, Len(s))

\* Iterator::position: the first index whose element satisfies P, 0 for None
Position(s, P(_)) ==
    IF \E i \in 1..Len(s) : P(s[i])
    THEN CHOOSE i \in 1..Len(s) : P(s[i]) /\ \A j \in 1..(i - 1) : ~P(s[j])
    ELSE 0

\* Pattern::matches: the pattern occurs in the message text
Matches(pattern, text) ==
    \E i \in 1..(Len(text) - Len(pattern) + 1) :
        SubSeq(text, i, i + Len(pattern) - 1) = pattern

\* str::strip_prefix: Some(rest) when s starts with prefix, else None
StripPrefix(s, prefix) ==
    IF Len(prefix) <= Len(s) /\ SubSeq(s, 1, Len(prefix)) = prefix
    THEN Some(SubSeq(s, Len(prefix) + 1, Len(s)))
    ELSE None

\* All sequences over S of length at most n
RECURSIVE SeqsUpTo(_, _)
SeqsUpTo(S, n) ==
    IF n = 0 THEN {<<>>}
    ELSE LET shorter == SeqsUpTo(S, n - 1)
         IN shorter \cup {Append(s, x) : s \in {t \in shorter : Len(t) = n - 1}, x \in S}

(***************************************************************************)
(* The data of the annotation matcher.                                     *)
(***************************************************************************)
Ok(v) == [ok |-> TRUE, val |-> v]
Err(e) == [ok |-> FALSE, val |-> e]

\* Message { level, message, code: Option<String> }
Levels == {Warn, Error}
Texts == {<<"a">>, <<"a", "b">>}
Codes == {None, Some(<<"p", "E">>)}
MsgSet ==
    {m \in [level : Levels, message : Texts, code : Codes] :
        (m.code # None) <=> (m.level = Error <=> m.message = <<"a">>)}

Patterns == {<<"a">>, <<"b">>}
DirectiveCodes == {<<"E">>}

\* Mode::Pass, Mode::Panic, Mode::Fail { require_patterns }, Mode::Yolo
Pass == [name |-> "Pass", require_patterns |-> FALSE]
Panic == [name |-> "Panic", require_patterns |-> FALSE]
Fail(require_patterns) == [name |-> "Fail", require_patterns |-> require_patterns]
Yolo == [name |-> "Yolo", require_patterns |-> FALSE]
Modes == {Pass, Panic, Fail(TRUE), Fail(FALSE), Yolo}

\* ErrorMatch { kind: Pattern { pattern, level } | Code(code), line }, each
\* with the span of its pattern or code
PatternMatch(pattern, level, line, span) ==
    [kind |-> "Pattern", pattern |-> pattern, level |-> level, code |-> <<>>,
     line |-> line, span |-> span]
CodeMatch(code, line, span) ==
    [kind |-> "Code", pattern |-> <<>>, level |-> Error, code |-> code,
     line |-> line, span |-> span]

\* The Errored a failing find_one / mode() returns (built outside this file)
NoEnvs == [name \in {} |-> <<>>]
CommandNew(program) == [args |-> <<program>>, envs |-> NoEnvs, stdin |-> None]
FindOneErrored(kind) ==
    [command |-> CommandNew(<<"find_one", kind>>),
     errors |-> <<[kind |-> "MultipleRevisionsWithResults", what |-> kind]>>,
     stderr |-> <<>>, stdout |-> <<>>]

TestedFile == <<"tests", "t.rs">>

\* Error::PatternNotFound { pattern, expected_line }
PatternNotFound(pattern, span, expected_line) ==
    [kind |-> "PatternNotFound", pattern |-> pattern, span |-> span,
     expected_line |-> expected_line]
\* Error::CodeNotFound { code, expected_line }
CodeNotFound(code, span, expected_line) ==
    [kind |-> "CodeNotFound", code |-> code, span |-> span,
     expected_line |-> expected_line]
\* Error::ErrorsWithoutPattern { path, msgs }: path is None or the tested
\* file with line_start
ErrorsWithoutPattern(path, msgs) ==
    [kind |-> "ErrorsWithoutPattern", path |-> path, msgs |-> msgs]
PatternFoundInPassTest(span) ==
    [kind |-> "PatternFoundInPassTest", mode |-> "mode_span", span |-> span]
NoPatternsFound == [kind |-> "NoPatternsFound"]

(***************************************************************************)
(* check_annotations, lines 228-387.                                       *)
(***************************************************************************)
\* Mutant: the last foreign message the pattern matches is taken
FindForeignLast(msgs, pattern) ==
    LET S == {i \in DOMAIN msgs : Matches(pattern, msgs[i].message)}
    IN IF S = {} THEN 0 ELSE CHOOSE i \in S : \A j \in S : j <= i

\* lines 242-244: the first foreign message the pattern matches
FindForeign(msgs, pattern) ==
    Position(msgs, LAMBDA msg : Matches(pattern, msg.message))

\* Mutant: a message of a higher level satisfies the directive too
FindPatternAtLeast(msgs, pattern, level) ==
    Position(msgs, LAMBDA msg : Matches(pattern, msg.message) /\ msg.level >= level)

\* lines 287-289: the first message of the bucket with a matching text and
\* the directive's level
FindPattern(msgs, pattern, level) ==
    Position(msgs, LAMBDA msg : Matches(pattern, msg.message) /\ msg.level = level)

\* Mutant: the message's level is not looked at
FindCodeAnyLevel(msgs, code, prefix) ==
    Position(msgs, LAMBDA msg :
        /\ msg.code # None
        /\ StripPrefix(msg.code[1], prefix) = Some(code))

\* lines 296-308: the first Error message whose code, without the prefix,
\* is the directive's code
FindCode(msgs, code, prefix) ==
    Position(msgs, LAMBDA msg :
        /\ msg.level = Error
        /\ msg.code # None
        /\ StripPrefix(msg.code[1], prefix) = Some(code))

\* Mutant: the found message stays in the working collection
ConsumeNothing(msgs, i) == msgs

\* lines 246, 291, 305: the found message leaves the working collection
Consume(msgs, i) == VecRemove(msgs, i)

\* lines 278-280
LowerLevel(lowest, d) ==
    IF d.kind = "Pattern" /\ lowest > d.level THEN d.level ELSE lowest

\* lines 284-311: the index in bucket `line` of the message the directive
\* consumes, 0 when messages.get_mut(line) is None or nothing is found
FindMatch(buckets, d, prefix) ==
    IF d.line >= Len(buckets) THEN 0
    ELSE IF d.kind = "Pattern"
         THEN FindPattern(buckets[d.line + 1], d.pattern, d.level)
         ELSE FindCode(buckets[d.line + 1], d.code, prefix)

\* lines 313-325
NotFound(d, prefix) ==
    IF d.kind = "Pattern"
    THEN PatternNotFound(d.pattern, d.span, Some(d.line))
    ELSE CodeNotFound(prefix \o d.code, d.span, Some(d.line))

\* Mutant: the lower of the override and the directives' level is taken
RequiredIsLeast(configured, lowest) ==
    IF configured = None \/ lowest < configured[1] THEN lowest ELSE configured[1]

\* lines 333-335
RequiredAnnotationLevel(configured, lowest) ==
    IF configured = None THEN lowest ELSE configured[1]

\* Mutant: the filter keeps every message, whatever its level
FilterKeepsAll(msgs, required) == msgs

\* lines 336-339
Filter(msgs, required) == SelectSeq(msgs, LAMBDA msg : msg.level >= required)

\* Mutant: the unknown-line entry is built from the list as it was on entry
UnknownErrorsOfInput(unknown, required) ==
    IF Filter(diagnostics.messages_from_unknown_file_or_line, required) # <<>>
    THEN <<ErrorsWithoutPattern(None,
              Filter(diagnostics.messages_from_unknown_file_or_line, required))>>
    ELSE <<>>

\* lines 344-350
UnknownErrors(unknown, required) ==
    IF Filter(unknown, required) # <<>>
    THEN <<ErrorsWithoutPattern(None, Filter(unknown, required))>>
    ELSE <<>>

\* lines 352-367: buckets i..Len, in line order; bucket i is line i - 1
RECURSIVE LineErrors(_, _, _)
LineErrors(buckets, required, i) ==
    IF i > Len(buckets) THEN <<>>
    ELSE (IF Filter(buckets[i], required) # <<>>
          THEN <<ErrorsWithoutPattern(Some(<<TestedFile, i - 1>>),
                                      Filter(buckets[i], required))>>
          ELSE <<>>)
         \o LineErrors(buckets, required, i + 1)

\* Mutant: Yolo is checked like every other mode
AlwaysChecks(mode) == TRUE

\* line 343
ChecksExhaustiveness(mode) == mode.name # "Yolo"

\* lines 341-368
ExhaustivenessErrors(mode, unknown, buckets, required) ==
    IF ChecksExhaustiveness(mode)
    THEN UnknownErrors(unknown, required) \o LineErrors(buckets, required, 1)
    ELSE <<>>

\* Mutant: the enumeration index is taken one too low, so that line 1 is
\* numbered 0
Line0PanicsOffByOne(mode, buckets, required) ==
    /\ ChecksExhaustiveness(mode)
    /\ Len(buckets) >= 2
    /\ Filter(buckets[2], required) # <<>>

\* line 355: NonZeroUsize::new(0).expect(..) panics
Line0Panics(mode, buckets, required) ==
    /\ ChecksExhaustiveness(mode)
    /\ Len(buckets) >= 1
    /\ Filter(buckets[1], required) # <<>>

\* Mutant: Panic is forgotten in the first arm
ModeErrorsPassOnly(mode, seen) ==
    IF mode.name = "Pass" /\ seen # None
    THEN <<PatternFoundInPassTest(seen[1])>>
    ELSE IF mode.name = "Fail" /\ mode.require_patterns /\ seen = None
         THEN <<NoPatternsFound>>
         ELSE <<>>

\* Mutant: require_patterns is not looked at
ModeErrorsAnyFail(mode, seen) ==
    IF mode.name \in {"Pass", "Panic"} /\ seen # None
    THEN <<PatternFoundInPassTest(seen[1])>>
    ELSE IF mode.name = "Fail" /\ seen = None
         THEN <<NoPatternsFound>>
         ELSE <<>>

\* lines 370-385
ModeErrors(mode, seen) ==
    IF mode.name \in {"Pass", "Panic"} /\ seen # None
    THEN <<PatternFoundInPassTest(seen[1])>>
    ELSE IF mode.name = "Fail" /\ mode.require_patterns /\ seen = None
         THEN <<NoPatternsFound>>
         ELSE <<>>

(***************************************************************************)
(* What a function returned: Result<T, Errored>, or a panic.               *)
(***************************************************************************)
NotReturned == [tag |-> "none", val |-> <<>>]
RetOk(v) == [tag |-> "Ok", val |-> v]
RetErr(errored) == [tag |-> "Err", val |-> errored]
Panicked(msg) == [tag |-> "Panic", val |-> msg]

runVars == <<runs, log, out_dir, aux_outcome, extra_args, cmd, output,
            diagnostics>>
matcherVars == <<messages, messages_from_unknown_file_or_line,
                 seen_error_match, diagnostic_code_prefix,
                 lowest_annotation_level, required_annotation_level>>

\* `?` on an Err inside check_annotations or check_test_result: the callee's
\* Errored becomes the function's result, and its caller's (lines 206, 215,
\* 257, 331, 341, 414)
Propagate(errored) ==
    /\ pc' = "done"
    /\ result' = RetErr(errored)
    /\ ctr_ret' = IF entry = "run_test" THEN RetErr(errored) ELSE ctr_ret

\* lines 237-253, one iteration
ForeignPattern ==
    /\ pc = "ann_foreign"
    /\ idx <= Len(error_in_other_files)
    /\ LET error_pattern == error_in_other_files[idx]
           i == FindForeign(messages_from_unknown_file_or_line,
                            error_pattern.pattern)
       IN /\ seen_error_match' = Some(error_pattern.span)
          /\ IF i # 0
             THEN /\ messages_from_unknown_file_or_line' =
                        Consume(messages_from_unknown_file_or_line, i)
                  /\ errors' = errors
             ELSE /\ messages_from_unknown_file_or_line' =
                        messages_from_unknown_file_or_line
                  /\ errors' = Append(errors,
                        PatternNotFound(error_pattern.pattern,
                                        error_pattern.span, None))
    /\ idx' = idx + 1
    /\ UNCHANGED <<configVars, output_conflict_handling, fs, entry, pc,
                   runVars, messages, checks_run, diagnostic_code_prefix,
                   lowest_annotation_level, required_annotation_level,
                   ctr_ret, result>>

\* lines 254-265, after the last foreign-file pattern
ResolvePrefix ==
    /\ pc = "ann_foreign"
    /\ idx > Len(error_in_other_files)
    /\ IF prefix_result.ok
       THEN /\ diagnostic_code_prefix' =
                  (IF prefix_result.val = None THEN <<>> ELSE prefix_result.val[1])
            /\ lowest_annotation_level' = Error
            /\ pc' = "ann_matches"
            /\ idx' = 1
            /\ UNCHANGED <<ctr_ret, result>>
       ELSE /\ Propagate(prefix_result.val)
            /\ UNCHANGED <<diagnostic_code_prefix, lowest_annotation_level, idx>>
    /\ UNCHANGED <<configVars, output_conflict_handling, fs, entry, runVars,
                   messages, messages_from_unknown_file_or_line, errors,
                   checks_run, seen_error_match, required_annotation_level>>

\* lines 266-326, one iteration
MatchDirective ==
    /\ pc = "ann_matches"
    /\ idx <= Len(error_matches)
    /\ LET d == error_matches[idx]
           found == FindMatch(messages, d, diagnostic_code_prefix)
       IN /\ seen_error_match' = Some(d.span)
          /\ lowest_annotation_level' = LowerLevel(lowest_annotation_level, d)
          /\ IF found # 0
             THEN /\ messages' = [messages EXCEPT
                        ![d.line + 1] = Consume(messages[d.line + 1], found)]
                  /\ errors' = errors
             ELSE /\ messages' = messages
                  /\ errors' = Append(errors, NotFound(d, diagnostic_code_prefix))
    /\ idx' = idx + 1
    /\ UNCHANGED <<configVars, output_conflict_handling, fs, entry, pc,
                   runVars, messages_from_unknown_file_or_line, checks_run,
                   diagnostic_code_prefix, required_annotation_level, ctr_ret,
                   result>>

\* lines 328-386, after the last directive
FinishAnnotations ==
    /\ pc = "ann_matches"
    /\ idx > Len(error_matches)
    /\ required_annotation_level' =
          IF level_result.ok
          THEN Some(RequiredAnnotationLevel(level_result.val,
                                            lowest_annotation_level))
          ELSE required_annotation_level
    /\ IF ~level_result.ok
       THEN Propagate(level_result.val) /\ UNCHANGED <<errors, checks_run>>
       ELSE IF ~mode_result.ok
       THEN Propagate(mode_result.val) /\ UNCHANGED <<errors, checks_run>>
       ELSE LET required == RequiredAnnotationLevel(level_result.val,
                                                    lowest_annotation_level)
                mode == mode_result.val
            IN IF Line0Panics(mode, messages, required)
               THEN /\ errors' = errors \o UnknownErrors(
                          messages_from_unknown_file_or_line, required)
                    /\ pc' = "done"
                    /\ result' = Panicked(<<"line 0 is always empty">>)
                    /\ UNCHANGED <<checks_run, ctr_ret>>
               ELSE /\ errors' = errors
                          \o ExhaustivenessErrors(mode,
                                 messages_from_unknown_file_or_line, messages,
                                 required)
                          \o ModeErrors(mode, seen_error_match)
                    /\ checks_run' = checks_run \cup {"annotations"}
                    /\ IF entry = "check_annotations"
                       THEN pc' = "done" /\ result' = RetOk(<<>>)
                       ELSE pc' = "ctr_return" /\ result' = result
                    /\ UNCHANGED ctr_ret
    /\ UNCHANGED <<configVars, output_conflict_handling, fs, entry, idx,
                   runVars, messages, messages_from_unknown_file_or_line,
                   seen_error_match, diagnostic_code_prefix,
                   lowest_annotation_level>>

NextAnn == ForeignPattern \/ ResolvePrefix \/ MatchDirective \/ FinishAnnotations

(***************************************************************************)
(* The inputs of check_annotations.                                        *)
(***************************************************************************)
\* The messages of s placed at location L (0: no known line)
RECURSIVE Placed(_, _, _)
Placed(s, loc, L) ==
    IF s = <<>> THEN <<>>
    ELSE LET rest == Placed(Tail(s), [j \in 1..(Len(s) - 1) |-> loc[j + 1]], L)
         IN IF loc[1] = L THEN <<Head(s)>> \o rest ELSE rest

\* n messages, each with its location
Placements(n, maxLine) ==
    UNION { {[s |-> s, loc |-> loc] : loc \in [1..Len(s) -> 0..maxLine]} :
            s \in SeqsUpTo(MsgSet, n) }

\* What rustc_stderr::process can return for at most n messages on lines
\* 1..maxLine: len buckets, bucket 0 empty, every located message in its
\* line's bucket, the others in the unknown-line list
MessageStreams(n, maxLine) ==
    { [messages |-> [i \in 1..x[2] |->
                        IF i = 1 THEN <<>> ELSE Placed(x[1].s, x[1].loc, i - 1)],
       messages_from_unknown_file_or_line |-> Placed(x[1].s, x[1].loc, 0)] :
        x \in { y \in Placements(n, maxLine) \X (0..(maxLine + 1)) :
                  \A j \in 1..Len(y[1].s) :
                      y[1].loc[j] = 0 \/ y[1].loc[j] < y[2] } }

\* The ErrorMatch directives a test can carry: at most n, on lines
\* 1..maxLine, the i-th with span <<"error_matches", i>>
ErrorMatchShapes(maxLine) ==
    {PatternMatch(p, l, line, <<>>) :
        p \in Patterns, l \in Levels, line \in 1..maxLine}
    \cup {CodeMatch(c, line, <<>>) : c \in DirectiveCodes, line \in 1..maxLine}
ErrorMatchLists(n, maxLine) ==
    { [i \in 1..Len(q) |-> [q[i] EXCEPT !.span = <<"error_matches", i>>]] :
        q \in SeqsUpTo(ErrorMatchShapes(maxLine), n) }

\* The foreign-file patterns a test can carry
ForeignLists(n) ==
    { [i \in 1..Len(q) |->
          [pattern |-> q[i], span |-> <<"error_in_other_files", i>>]] :
        q \in SeqsUpTo(Patterns, n) }

ConfiguredOutDir == <<"target", "ui">>
NotCalled == [ok |-> TRUE, val |-> "not called"]
NoOutcome ==
    [aux_file |-> <<>>, line |-> <<>>, canonicalize |-> NotCalled,
     build |-> NotCalled]
NoCommand == [args |-> <<>>, envs |-> NoEnvs, stdin |-> None]
NoOutput == [status |-> "none", stdout |-> <<>>, stderr |-> <<>>]
NoFiles == [path \in {} |-> None]

\* rustc_stderr::process's results with no rendered text
DiagnosticsOf(streams) ==
    { [rendered |-> <<>>, messages |-> st.messages,
       messages_from_unknown_file_or_line |->
           st.messages_from_unknown_file_or_line] : st \in streams }

\* A call of check_annotations(messages, messages_from_unknown_file_or_line,
\* errors) with an empty error list
InitAnn ==
    /\ revision = <<>>
    /\ stderr_per_bitwidth = FALSE
    /\ normalize_stderr = <<>>
    /\ normalize_stdout = <<>>
    /\ output_conflict_handling = "Ignore"
    /\ compile_flags = <<>>
    /\ env_vars = <<>>
    /\ target = None
    /\ host_matches_target = TRUE
    /\ stdin_exists = FALSE
    /\ aux_builds = <<>>
    /\ custom = <<>>
    /\ error_in_other_files \in ForeignLists(MaxForeign)
    /\ error_matches \in ErrorMatchLists(MaxDirs, MaxLine)
    /\ \/ /\ prefix_result = Ok(Some(<<"p">>))
          /\ mode_result \in {Ok(Fail(FALSE)), Ok(Yolo)}
          /\ level_result \in {Ok(None)} \cup {Ok(Some(l)) : l \in Levels}
          /\ diagnostics \in DiagnosticsOf(MessageStreams(MaxMsgs, MaxLine))
       \/ /\ prefix_result = Ok(Some(<<"p">>))
          /\ mode_result \in {Ok(m) : m \in Modes}
          /\ level_result = Ok(None)
          /\ diagnostics \in DiagnosticsOf(MessageStreams(1, MaxLine))
       \/ /\ prefix_result \in {Ok(None), Ok(Some(<<"q">>))}
          /\ mode_result = Ok(Fail(FALSE))
          /\ level_result = Ok(None)
          /\ diagnostics \in DiagnosticsOf(MessageStreams(1, MaxLine))
    /\ fs = NoFiles
    /\ entry = "check_annotations"
    /\ pc = "ann_foreign"
    /\ idx = 1
    /\ runs = <<>>
    /\ log = <<>>
    /\ out_dir = ConfiguredOutDir
    /\ aux_outcome = NoOutcome
    /\ extra_args = <<>>
    /\ cmd = NoCommand
    /\ output = NoOutput
    /\ messages = diagnostics.messages
    /\ messages_from_unknown_file_or_line =
          diagnostics.messages_from_unknown_file_or_line
    /\ errors = <<>>
    /\ checks_run = {}
    /\ seen_error_match = None
    /\ diagnostic_code_prefix = <<>>
    /\ lowest_annotation_level = Error
    /\ required_annotation_level = None
    /\ ctr_ret = NotReturned
    /\ result = NotReturned

SpecAnn == InitAnn /\ [][NextAnn]_vars

(***************************************************************************)
(* Properties of check_annotations, checked under SpecAnn.                 *)
(***************************************************************************)
Count(s, P(_)) == Cardinality({i \in 1..Len(s) : P(s[i])})

RECURSIVE TotalLen(_)
TotalLen(buckets) ==
    IF buckets = <<>> THEN 0 ELSE Len(Head(buckets)) + TotalLen(Tail(buckets))

AnnotationsReturned == pc = "done" /\ entry = "check_annotations" /\ result.tag = "Ok"

IsNotFound(e) == e.kind \in {"PatternNotFound", "CodeNotFound"}
IsEWP(e) == e.kind = "ErrorsWithoutPattern"

\* The level the spec gives the exhaustiveness filter: the configured
\* override, else the least level of the Pattern directives, else Error
LeastPatternLevel ==
    LET ls == {error_matches[i].level :
                  i \in {j \in 1..Len(error_matches) :
                            error_matches[j].kind = "Pattern"}} \cup {Error}
    IN CHOOSE l \in ls : \A k \in ls : l <= k
EffectiveLevel ==
    IF level_result.val # None THEN level_result.val[1] ELSE LeastPatternLevel

HasLeftover(msgs) == \E i \in 1..Len(msgs) : msgs[i].level >= EffectiveLevel
LinePath(line) == Some(<<TestedFile, line>>)
EWPCount(path) == Count(errors, LAMBDA e : IsEWP(e) /\ e.path = path)

\* The messages a directive asks for
ConfiguredPrefix ==
    IF prefix_result.val = None THEN <<>> ELSE prefix_result.val[1]
Satisfies(msg, d) ==
    IF d.kind = "Pattern"
    THEN Matches(d.pattern, msg.message) /\ msg.level = d.level
    ELSE msg.level = Error /\ msg.code = Some(ConfiguredPrefix \o d.code)

\* C1: in every mode but Yolo, when check_annotations has returned, the error
\* list holds exactly one ErrorsWithoutPattern entry for every line whose
\* bucket still holds a message at or above the effective level, exactly one
\* with path None if the unknown-line list still holds one, and none for any
\* other location.
C1_OneEntryPerLocation ==
    (AnnotationsReturned /\ mode_result.val.name # "Yolo") =>
        /\ \A line \in 0..(Len(messages) - 1) :
              EWPCount(LinePath(line)) =
                  IF HasLeftover(messages[line + 1]) THEN 1 ELSE 0
        /\ EWPCount(None) =
              IF HasLeftover(messages_from_unknown_file_or_line) THEN 1 ELSE 0
        /\ \A i \in 1..Len(errors) :
              IsEWP(errors[i]) =>
                  \/ errors[i].path = None
                  \/ \E line \in 0..(Len(messages) - 1) :
                        errors[i].path = LinePath(line)

\* A run in which a directive consumed one message of a bucket and the
\* bucket's other message was reported
C1_Witness ==
    /\ AnnotationsReturned
    /\ mode_result.val.name # "Yolo"
    /\ \E line \in 1..(Len(messages) - 1) :
          /\ EWPCount(LinePath(line)) = 1
          /\ Len(diagnostics.messages[line + 1]) = 2
          /\ Len(messages[line + 1]) = 1

DirectivesProcessed ==
    IF pc = "ann_foreign" THEN idx - 1
    ELSE IF pc = "ann_matches" THEN Len(error_in_other_files) + idx - 1
    ELSE Len(error_in_other_files) + Len(error_matches)

MessagesConsumed ==
    (TotalLen(diagnostics.messages)
        + Len(diagnostics.messages_from_unknown_file_or_line))
    - (TotalLen(messages) + Len(messages_from_unknown_file_or_line))

HasNotFound(span) ==
    \E i \in 1..Len(errors) : IsNotFound(errors[i]) /\ errors[i].span = span

SameDirective(d, e) == [d EXCEPT !.span = <<>>] = [e EXCEPT !.span = <<>>]

\* C2: matching is at-most-once. At every point of the directive passes the
\* number of messages removed equals the number of directives that found
\* their message, so no message serves two directives; and of two identical
\* directives that alone address a bucket holding exactly one message that
\* satisfies them, the first matches and the second is reported not found.
C2_AtMostOnce ==
    (pc \in {"ann_foreign", "ann_matches"} \/ AnnotationsReturned) =>
        /\ MessagesConsumed = DirectivesProcessed - Count(errors, IsNotFound)
        /\ AnnotationsReturned =>
              \A i, j \in 1..Len(error_matches) :
                  LET d == error_matches[i] IN
                  (/\ i < j
                   /\ SameDirective(d, error_matches[j])
                   /\ \A k \in 1..(j - 1) : k # i => error_matches[k].line # d.line
                   /\ d.line < Len(diagnostics.messages)
                   /\ Count(diagnostics.messages[d.line + 1],
                            LAMBDA m : Satisfies(m, d)) = 1)
                  => (~HasNotFound(d.span) /\ HasNotFound(error_matches[j].span))

\* Two identical directives against one bucket with one satisfying message
C2_Witness ==
    /\ AnnotationsReturned
    /\ Len(error_matches) = 2
    /\ SameDirective(error_matches[1], error_matches[2])
    /\ error_matches[1].line < Len(diagnostics.messages)
    /\ Count(diagnostics.messages[error_matches[1].line + 1],
             LAMBDA m : Satisfies(m, error_matches[1])) = 1
    /\ MessagesConsumed = 1
    /\ HasNotFound(error_matches[2].span)

LastDirectiveSpan ==
    IF error_matches # <<>> THEN error_matches[Len(error_matches)].span
    ELSE error_in_other_files[Len(error_in_other_files)].span

IsPFIPT(e) == e.kind = "PatternFoundInPassTest"

\* C3: in Pass and Panic mode, PatternFoundInPassTest is recorded if and
\* only if some error-match directive (line-anchored or foreign-file) was
\* processed, found or not, and it carries the span of the last one.
C3_PatternFoundInPassTest ==
    (AnnotationsReturned /\ mode_result.val.name \in {"Pass", "Panic"}) =>
        IF error_matches = <<>> /\ error_in_other_files = <<>>
        THEN Count(errors, IsPFIPT) = 0
        ELSE /\ Count(errors, IsPFIPT) = 1
             /\ \A i \in 1..Len(errors) :
                    IsPFIPT(errors[i]) => errors[i].span = LastDirectiveSpan

\* Panic mode, a foreign-file pattern and a line directive, every directive
\* having found its message
C3_Witness ==
    /\ AnnotationsReturned
    /\ mode_result.val.name = "Panic"
    /\ error_matches # <<>>
    /\ Count(errors, IsNotFound) = 0
    /\ Count(errors, IsPFIPT) = 1

\* C4: NoPatternsFound is recorded exactly when the mode is
\* Fail { require_patterns: true } and there is no error-match directive.
C4_NoPatternsFound ==
    AnnotationsReturned =>
        (Count(errors, LAMBDA e : e.kind = "NoPatternsFound") =
            IF /\ mode_result.val = Fail(TRUE)
               /\ error_matches = <<>>
               /\ error_in_other_files = <<>>
            THEN 1 ELSE 0)

C4_Witness ==
    /\ AnnotationsReturned
    /\ mode_result.val = Fail(TRUE)
    /\ error_matches = <<>> /\ error_in_other_files = <<>>
    /\ errors = <<NoPatternsFound>>

\* C5: in Yolo mode no ErrorsWithoutPattern is ever recorded, whatever is
\* left over, while a directive that no message of its location satisfies
\* is still reported not found.
C5_YoloSkipsExhaustiveness ==
    mode_result.val.name = "Yolo" =>
        /\ Count(errors, IsEWP) = 0
        /\ AnnotationsReturned =>
              /\ \A i \in 1..Len(error_matches) :
                    LET d == error_matches[i] IN
                    (\/ d.line >= Len(diagnostics.messages)
                     \/ Count(diagnostics.messages[d.line + 1],
                              LAMBDA m : Satisfies(m, d)) = 0)
                    => HasNotFound(d.span)
              /\ \A i \in 1..Len(error_in_other_files) :
                    LET f == error_in_other_files[i] IN
                    Count(diagnostics.messages_from_unknown_file_or_line,
                          LAMBDA m : Matches(f.pattern, m.message)) = 0
                    => HasNotFound(f.span)

\* Yolo with an Error message left over in a bucket and in the unknown-line
\* list, and an unmatched directive reported
C5_Witness ==
    /\ AnnotationsReturned
    /\ mode_result.val.name = "Yolo"
    /\ \E i \in 1..Len(messages), j \in 1..Len(messages_from_unknown_file_or_line) :
          /\ \E k \in 1..Len(messages[i]) : messages[i][k].level = Error
          /\ messages_from_unknown_file_or_line[j].level = Error
    /\ Count(errors, IsNotFound) > 0

(***************************************************************************)
(* The output reconciler, lines 46-53 and 137-198.                         *)
(***************************************************************************)
\* lines 47-53: the extension's dot-separated parts
Extension(extension) ==
    IF revision = <<>> THEN <<extension>> ELSE <<revision, extension>>

\* lines 137-145: path.with_extension(..), the tested file's stem and the
\* new extension's parts
OutputPath(kind) ==
    [stem |-> <<"tests", "t">>,
     ext |-> IF stderr_per_bitwidth
             THEN <<"64bit">> \o Extension(kind)
             ELSE Extension(kind)]

BaselinePaths == {OutputPath("stderr"), OutputPath("stdout")}

\* Regex::replace_all for a one-byte pattern
RECURSIVE ReplaceAll(_, _, _)
ReplaceAll(text, from, to) ==
    IF text = <<>> THEN <<>>
    ELSE (IF Head(text) = from THEN to ELSE <<Head(text)>>)
         \o ReplaceAll(Tail(text), from, to)

\* lines 150-157: every rule in order
RECURSIVE ApplyRules(_, _)
ApplyRules(text, rules) ==
    IF rules = <<>> THEN text
    ELSE ApplyRules(ReplaceAll(text, Head(rules).from, Head(rules).to), Tail(rules))

\* lines 147-159
Normalize(text, kind) ==
    ApplyRules(text, CASE kind = "fixed" -> <<>>
                       [] kind = "stderr" -> normalize_stderr
                       [] kind = "stdout" -> normalize_stdout)

\* Error::OutputDiffers { path, actual, expected, bless_command }
OutputDiffers(path, actual, expected) ==
    [kind |-> "OutputDiffers", path |-> path, actual |-> actual,
     expected |-> expected, bless_command |-> "bless_command"]

\* line 178: std::fs::read(&path).unwrap_or_default()
ReadOrDefault(files, path) == IF files[path] = None THEN <<>> ELSE files[path][1]

\* lines 177-187
OutputErrors(policy, files, path, normalized) ==
    IF policy = "Error" /\ normalized # ReadOrDefault(files, path)
    THEN <<OutputDiffers(path, normalized, ReadOrDefault(files, path))>>
    ELSE <<>>

\* Mutant: an empty output leaves the old baseline in place
BlessKeepsStale(files, path, normalized) ==
    IF normalized = <<>> THEN files
    ELSE [files EXCEPT ![path] = Some(normalized)]

\* Mutant: an empty output is written as an empty file
BlessWritesEmpty(files, path, normalized) ==
    [files EXCEPT ![path] = Some(normalized)]

\* lines 188-194
Bless(files, path, normalized) ==
    IF normalized = <<>>
    THEN [files EXCEPT ![path] = None]
    ELSE [files EXCEPT ![path] = Some(normalized)]

\* lines 168-198: check_output(output, errors, kind)
CheckOutput(raw, kind) ==
    LET normalized == Normalize(raw, kind)
        path == OutputPath(kind)
    IN /\ errors' = errors \o OutputErrors(output_conflict_handling, fs,
                                           path, normalized)
       /\ fs' = IF output_conflict_handling = "Bless"
                THEN Bless(fs, path, normalized)
                ELSE fs

\* line 164
CheckStderr ==
    /\ pc = "check_stderr"
    /\ CheckOutput(diagnostics.rendered, "stderr")
    /\ pc' = "check_stdout"
    /\ checks_run' = checks_run \cup {"stderr"}
    /\ UNCHANGED <<configVars, output_conflict_handling, entry, idx, runVars,
                   matcherVars, ctr_ret, result>>

\* line 165, and the entry of check_annotations (lines 211-215, 236)
CheckStdout ==
    /\ pc = "check_stdout"
    /\ CheckOutput(output.stdout, "stdout")
    /\ checks_run' = checks_run \cup {"stdout"}
    /\ IF entry = "check_test_output"
       THEN /\ pc' = "done"
            /\ result' = RetOk(<<>>)
            /\ UNCHANGED <<idx, messages, messages_from_unknown_file_or_line,
                           seen_error_match>>
       ELSE /\ pc' = "ann_foreign"
            /\ idx' = 1
            /\ messages' = diagnostics.messages
            /\ messages_from_unknown_file_or_line' =
                  diagnostics.messages_from_unknown_file_or_line
            /\ seen_error_match' = None
            /\ result' = result
    /\ UNCHANGED <<configVars, output_conflict_handling, entry, runVars,
                   diagnostic_code_prefix, lowest_annotation_level,
                   required_annotation_level, ctr_ret>>

Policies == {"Error", "Bless", "Ignore"}

\* The harness calls check_test_output again, on the same captured output,
\* under a policy of its choice and with a fresh error list
Rerun ==
    /\ pc = "done"
    /\ entry = "check_test_output"
    /\ Len(runs) + 1 < MaxRuns
    /\ runs' = Append(runs, output_conflict_handling)
    /\ output_conflict_handling' \in Policies
    /\ errors' = <<>>
    /\ checks_run' = {}
    /\ pc' = "check_stderr"
    /\ result' = NotReturned
    /\ UNCHANGED <<configVars, fs, entry, idx, log, out_dir, aux_outcome,
                   extra_args, cmd, output, diagnostics, matcherVars, ctr_ret>>

NextOut == CheckStderr \/ CheckStdout \/ Rerun

Bytes == {"a", "b"}
RuleLists ==
    {<<>>,
     <<[from |-> "a", to |-> <<>>]>>,
     <<[from |-> "b", to |-> <<"a">>], [from |-> "a", to |-> <<"b", "b">>]>>}
BaselineFiles == {None, Some(<<>>), Some(<<"a">>), Some(<<"b", "b">>)}

\* A call of check_test_output(errors, stdout, stderr) with an empty error
\* list
InitOut ==
    /\ \/ revision = <<>> /\ stderr_per_bitwidth = FALSE
       \/ revision = <<"r">> /\ stderr_per_bitwidth = TRUE
    /\ normalize_stderr \in RuleLists
    /\ normalize_stdout \in RuleLists
    /\ output_conflict_handling \in Policies
    /\ compile_flags = <<>>
    /\ env_vars = <<>>
    /\ target = None
    /\ host_matches_target = TRUE
    /\ stdin_exists = FALSE
    /\ aux_builds = <<>>
    /\ custom = <<>>
    /\ error_in_other_files = <<>>
    /\ error_matches = <<>>
    /\ mode_result = Ok(Pass)
    /\ prefix_result = Ok(None)
    /\ level_result = Ok(None)
    /\ fs \in [BaselinePaths -> BaselineFiles]
    /\ entry = "check_test_output"
    /\ pc = "check_stderr"
    /\ idx = 1
    /\ runs = <<>>
    /\ log = <<>>
    /\ out_dir = ConfiguredOutDir
    /\ aux_outcome = NoOutcome
    /\ extra_args = <<>>
    /\ cmd = NoCommand
    /\ output \in {[status |-> "none", stdout |-> o, stderr |-> <<>>] :
                      o \in SeqsUpTo(Bytes, MaxOut)}
    /\ diagnostics \in {[rendered |-> o, messages |-> <<>>,
                         messages_from_unknown_file_or_line |-> <<>>] :
                            o \in SeqsUpTo(Bytes, MaxOut)}
    /\ messages = <<>>
    /\ messages_from_unknown_file_or_line = <<>>
    /\ errors = <<>>
    /\ checks_run = {}
    /\ seen_error_match = None
    /\ diagnostic_code_prefix = <<>>
    /\ lowest_annotation_level = Error
    /\ required_annotation_level = None
    /\ ctr_ret = NotReturned
    /\ result = NotReturned

SpecOut == InitOut /\ [][NextOut]_vars

IsOutputDiffers(e) == e.kind = "OutputDiffers"
Blessed(kind) == output_conflict_handling = "Bless" /\ kind \in checks_run
RawOutput(kind) == IF kind = "stderr" THEN diagnostics.rendered ELSE output.stdout

\* C6: a call under Bless followed by a call under Error, on the same raw
\* output and rules, records no OutputDiffers, for either kind and whatever
\* the baseline files held before.
C6_BlessThenError ==
    (/\ entry = "check_test_output"
     /\ runs # <<>>
     /\ runs[Len(runs)] = "Bless"
     /\ output_conflict_handling = "Error")
    => Count(errors, IsOutputDiffers) = 0

\* The Error call has compared both kinds after a Bless call that deleted a
\* baseline (empty normalized output) and wrote the other
C6_Witness ==
    /\ entry = "check_test_output"
    /\ runs = <<"Bless">>
    /\ output_conflict_handling = "Error"
    /\ pc = "done"
    /\ fs[OutputPath("stderr")] = None
    /\ diagnostics.rendered # <<>>
    /\ fs[OutputPath("stdout")] # None
    /\ fs[OutputPath("stdout")] # Some(output.stdout)

\* C7: after check_output under Bless, the baseline file is absent when the
\* normalized output is empty, and otherwise holds exactly the normalized
\* output.
C7_BlessWritesOrDeletes ==
    \A kind \in {"stderr", "stdout"} :
        Blessed(kind) =>
            IF Normalize(RawOutput(kind), kind) = <<>>
            THEN fs[OutputPath(kind)] = None
            ELSE /\ fs[OutputPath(kind)] # None
                 /\ fs[OutputPath(kind)][1] = Normalize(RawOutput(kind), kind)

\* A first call under Bless has deleted a baseline that existed, the raw
\* output being non-empty and its normalized form empty
C7_Witness ==
    /\ entry = "check_test_output"
    /\ runs = <<>>
    /\ Blessed("stderr")
    /\ diagnostics.rendered # <<>>
    /\ fs[OutputPath("stderr")] = None
    /\ normalize_stderr # <<>>

(***************************************************************************)
(* run_test, lines 403-430, with patch_out_dir, build_command,             *)
(* build_aux_files, build_aux_file and check_test_result.                  *)
(***************************************************************************)
AuxDir == <<"tests", "auxiliary">>
CurrentDir == <<"cwd">>
Parent(path) == SubSeq(path, 1, Len(path) - 1)

\* core::strip_path_prefix: what is left of path after the components it
\* shares with prefix
RECURSIVE StripPathPrefix(_, _)
StripPathPrefix(path, prefix) ==
    IF path # <<>> /\ prefix # <<>> /\ Head(path) = Head(prefix)
    THEN StripPathPrefix(Tail(path), Tail(prefix))
    ELSE path

\* A step of run_test, as the history records it
NoAnswer == [tag |-> "-", val |-> NoCommand]
Event(op) == [op |-> op, name |-> "", cmd |-> NoCommand, ret |-> NoAnswer]
PostEvent(flag, command, answer) ==
    [op |-> "post_test_action", name |-> flag.name, cmd |-> command,
     ret |-> answer]

\* `?` on an Err in run_test, build_command, build_aux_files or
\* build_aux_file (lines 397, 406, 412, 421, 462, 483)
ReturnErr(errored) ==
    /\ pc' = "done"
    /\ result' = RetErr(errored)

\* Mutant: the rewrite is applied a second time to its own result
PatchedTwice(dir) ==
    (dir \o StripPathPrefix(Parent(TestedFile), dir))
      \o StripPathPrefix(Parent(TestedFile),
                         dir \o StripPathPrefix(Parent(TestedFile), dir))

\* lines 41-43
Patched(dir) == dir \o StripPathPrefix(Parent(TestedFile), dir)

\* lines 38-44, and build_aux_files' extra_args = vec![] (line 394)
PatchOutDir ==
    /\ pc = "patch_out_dir"
    /\ out_dir' = Patched(out_dir)
    /\ log' = Append(log, Event("patch_out_dir"))
    /\ extra_args' = <<>>
    /\ idx' = 1
    /\ pc' = "build_aux"
    /\ UNCHANGED <<configVars, output_conflict_handling, fs, entry, runs,
                   aux_outcome, cmd, output, diagnostics, matcherVars, errors,
                   checks_run, ctr_ret, result>>

\* lines 445-449
AuxFile(aux) ==
    IF aux.path # <<>> /\ Head(aux.path) = ".."
    THEN Parent(AuxDir) \o aux.path
    ELSE AuxDir \o aux.path

\* Path::canonicalize where it succeeds: absolute, every ".." resolved
RECURSIVE ResolveOnto(_, _)
ResolveOnto(stack, path) ==
    IF path = <<>> THEN stack
    ELSE IF Head(path) = ".."
         THEN ResolveOnto(Parent(stack), Tail(path))
         ELSE ResolveOnto(Append(stack, Head(path)), Tail(path))
Canonical(path) == ResolveOnto(CurrentDir, path)

\* lines 453-465: AuxBuilder { aux_file }
AuxKey(aux_file) == StripPathPrefix(Canonical(aux_file), CurrentDir)

\* Error::Aux { path, errors, line }
AuxError(path, errs, line) ==
    [kind |-> "Aux", path |-> path, errors |-> errs, line |-> line]

\* lines 454-462
CanonicalizeErrored(aux_file, err) ==
    [command |-> CommandNew(<<"canonicalizing path">> \o aux_file),
     errors |-> <<>>, stderr |-> err, stdout |-> <<>>]

\* Mutant: the wrapped failure loses the build's captured output
WrapAuxDropsOutput(aux_file, line, errored) ==
    [command |-> errored.command,
     errors |-> <<AuxError(aux_file, errored.errors, line)>>,
     stderr |-> <<>>, stdout |-> <<>>]

\* lines 467-483
WrapAux(aux_file, line, errored) ==
    [command |-> errored.command,
     errors |-> <<AuxError(aux_file, errored.errors, line)>>,
     stderr |-> errored.stderr, stdout |-> errored.stdout]

\* What the coordinator and the file system can answer
IoErrors == {<<"No such file">>}
ExternArgs(key) == <<(<<"--extern">>), key>>
BuildFailures(key) ==
    {[command |-> CommandNew(<<"rustc">> \o key),
      errors |-> <<[kind |-> "Command", status |-> "failure"]>>,
      stderr |-> <<"e">>, stdout |-> <<"o">>],
     [command |-> CommandNew(<<"rustc">> \o key),
      errors |-> <<>>, stderr |-> <<"e", "e">>, stdout |-> <<>>]}

\* lines 395-399, one iteration: build_aux_file (lines 437-486)
BuildAuxFile ==
    /\ pc = "build_aux"
    /\ idx <= Len(aux_builds)
    /\ LET aux == aux_builds[idx]
           aux_file == AuxFile(aux)
       IN \E canon \in {Ok(Canonical(aux_file))} \cup {Err(e) : e \in IoErrors} :
            IF ~canon.ok
            THEN /\ aux_outcome' = [aux_file |-> aux_file, line |-> aux.line,
                                    canonicalize |-> canon, build |-> NotCalled]
                 /\ ReturnErr(CanonicalizeErrored(aux_file, canon.val))
                 /\ UNCHANGED <<idx, extra_args, log>>
            ELSE \E built \in {Ok(ExternArgs(AuxKey(aux_file)))}
                              \cup {Err(f) : f \in BuildFailures(AuxKey(aux_file))} :
                   /\ aux_outcome' = [aux_file |-> aux_file, line |-> aux.line,
                                      canonicalize |-> canon, build |-> built]
                   /\ log' = Append(log, Event("build"))
                   /\ IF built.ok
                      THEN /\ extra_args' = extra_args \o built.val
                           /\ idx' = idx + 1
                           /\ UNCHANGED <<pc, result>>
                      ELSE /\ ReturnErr(WrapAux(aux_file, aux.line, built.val))
                           /\ UNCHANGED <<idx, extra_args>>
    /\ UNCHANGED <<configVars, output_conflict_handling, fs, entry, runs,
                   out_dir, cmd, output, diagnostics, matcherVars, errors,
                   checks_run, ctr_ret>>

\* config.program.build(&config.out_dir)
ProgramArgs(dir) == <<(<<"rustc">>), (<<"--out-dir">>), dir>>

\* Flag::apply of every custom flag, in order (lines 80-86)
RECURSIVE ApplyCustom(_, _)
ApplyCustom(args, flags) ==
    IF flags = <<>> THEN args
    ELSE ApplyCustom(Append(args, <<"--flag", Head(flags).name>>), Tail(flags))

\* Command::envs: a later pair overwrites an earlier one of the same name
EnvMap(pairs) ==
    [name \in {pairs[i].name : i \in DOMAIN pairs} |->
        pairs[CHOOSE i \in DOMAIN pairs :
                 /\ pairs[i].name = name
                 /\ \A j \in DOMAIN pairs : j > i => pairs[j].name # name].value]

\* Mutant: --target is passed whenever a target is configured
CommandArgsTargetAlways ==
    ApplyCustom(ProgramArgs(out_dir) \o extra_args \o <<TestedFile>>
                  \o (IF revision # <<>> THEN <<(<<"--cfg=">> \o revision)>> ELSE <<>>)
                  \o compile_flags,
                custom)
      \o (IF target # None THEN <<(<<"--target">>), target[1]>> ELSE <<>>)

\* lines 99-134 without line 100
CommandArgs ==
    ApplyCustom(ProgramArgs(out_dir) \o extra_args \o <<TestedFile>>
                  \o (IF revision # <<>> THEN <<(<<"--cfg=">> \o revision)>> ELSE <<>>)
                  \o compile_flags,
                custom)
      \o (IF target # None /\ ~host_matches_target
          THEN <<(<<"--target">>), target[1]>>
          ELSE <<>>)

\* line 407
StdinPath == [stem |-> <<"tests", "t">>, ext |-> Extension("stdin")]

\* lines 99-134 once build_aux_files has returned Ok, and lines 407-410
BuildCommand ==
    /\ pc = "build_aux"
    /\ idx > Len(aux_builds)
    /\ cmd' = [args |-> CommandArgs, envs |-> EnvMap(env_vars),
               stdin |-> IF stdin_exists THEN Some(StdinPath) ELSE None]
    /\ pc' = "run_command"
    /\ log' = Append(log, Event("build_command"))
    /\ UNCHANGED <<configVars, output_conflict_handling, fs, entry, idx, runs,
                   out_dir, aux_outcome, extra_args, output, diagnostics,
                   matcherVars, errors, checks_run, ctr_ret, result>>

\* What core::run_command returns when the process cannot be spawned
SpawnErrored(command) ==
    [command |-> command, errors |-> <<>>, stderr |-> <<"could not spawn">>,
     stdout |-> <<>>]

Statuses == {"success", "failure"}
RawStderrs == {<<>>, <<"j", "a">>}
Outputs ==
    [status : Statuses, stdout : {<<>>, <<"a">>}, stderr : RawStderrs]

\* line 412
RunCommand ==
    /\ pc = "run_command"
    /\ \/ /\ ReturnErr(SpawnErrored(cmd))
          /\ UNCHANGED output
       \/ /\ output' \in Outputs
          /\ pc' = "check_result"
          /\ UNCHANGED result
    /\ log' = Append(log, Event("run_command"))
    /\ UNCHANGED <<configVars, output_conflict_handling, fs, entry, idx, runs,
                   out_dir, aux_outcome, extra_args, cmd, diagnostics,
                   matcherVars, errors, checks_run, ctr_ret>>

\* Error::ExitStatus { mode, status, expected }
ExitStatus(mode, status) ==
    [kind |-> "ExitStatus", mode |-> mode.name, status |-> status]

\* Mode::ok(status): Pass wants success, Fail and Panic a failure, Yolo
\* accepts anything
ModeOk(mode, status) ==
    IF \/ mode.name = "Yolo"
       \/ mode.name = "Pass" /\ status = "success"
       \/ mode.name \in {"Fail", "Panic"} /\ status = "failure"
    THEN <<>>
    ELSE <<ExitStatus(mode, status)>>

\* rustc_stderr::process: the rendered text is the captured stderr without
\* its machine-readable lines
RECURSIVE Rendered(_)
Rendered(stderr) ==
    IF stderr = <<>> THEN <<>>
    ELSE IF Head(stderr) = "j" THEN Rendered(Tail(stderr))
         ELSE <<Head(stderr)>> \o Rendered(Tail(stderr))

\* rustc_stderr::process: the messages it can decode for the tested file
RunStreams == {st \in MessageStreams(1, 1) : Len(st.messages) = 2}

\* lines 205-208
CheckTestResult ==
    /\ pc = "check_result"
    /\ IF ~mode_result.ok
       THEN /\ Propagate(mode_result.val)
            /\ UNCHANGED <<errors, checks_run, diagnostics>>
       ELSE /\ errors' = ModeOk(mode_result.val, output.status)
            /\ checks_run' = {"status"}
            /\ \E st \in RunStreams :
                  diagnostics' =
                      [rendered |-> Rendered(output.stderr),
                       messages |-> st.messages,
                       messages_from_unknown_file_or_line |->
                           st.messages_from_unknown_file_or_line]
            /\ pc' = "check_stderr"
            /\ UNCHANGED <<result, ctr_ret>>
    /\ log' = Append(log, Event("check_test_result"))
    /\ UNCHANGED <<configVars, output_conflict_handling, fs, entry, idx, runs,
                   out_dir, aux_outcome, extra_args, cmd, output, matcherVars>>

\* Mutant: only the first recorded error is returned
ResultKeepsFirstError(command, out, errs, diag) ==
    IF errs = <<>> THEN RetOk(<<command, out>>)
    ELSE RetErr([command |-> command, errors |-> <<errs[1]>>,
                 stderr |-> diag.rendered, stdout |-> out.stdout])

\* Mutant: the failure carries the two streams exchanged
ResultSwapsStreams(command, out, errs, diag) ==
    IF errs = <<>> THEN RetOk(<<command, out>>)
    ELSE RetErr([command |-> command, errors |-> errs,
                 stderr |-> out.stdout, stdout |-> diag.rendered])

\* lines 216-225
ResultOf(command, out, errs, diag) ==
    IF errs = <<>> THEN RetOk(<<command, out>>)
    ELSE RetErr([command |-> command, errors |-> errs,
                 stderr |-> diag.rendered, stdout |-> out.stdout])

\* lines 216-225, and the `?` of line 414
ReturnResult ==
    /\ pc = "ctr_return"
    /\ LET r == ResultOf(cmd, output, errors, diagnostics)
       IN /\ ctr_ret' = r
          /\ IF r.tag = "Ok"
             THEN pc' = "post" /\ idx' = 1 /\ result' = result
             ELSE pc' = "done" /\ idx' = idx /\ result' = r
    /\ UNCHANGED <<configVars, output_conflict_handling, fs, entry, runVars,
                   matcherVars, errors, checks_run>>

\* What a flag's post_test_action can answer: a replacement command, none,
\* or an error
PostActions == {"replace", "finalize", "fail"}
PostErrored(command, flag) ==
    [command |-> command, errors |-> <<[kind |-> "Command", status |-> flag.name]>>,
     stderr |-> <<>>, stdout |-> <<>>]

\* What post_test_action answers for a command: Ok(Some(c)), Ok(None) or
\* Err
PostAnswer(flag, command) ==
    CASE flag.post = "replace" ->
            [tag |-> "Some",
             val |-> [command EXCEPT !.args = Append(@, <<"rerun", flag.name>>)]]
      [] flag.post = "finalize" -> [tag |-> "None", val |-> NoCommand]
      [] flag.post = "fail" -> [tag |-> "Err", val |-> NoCommand]

\* Mutant: the replacement is dropped and the next flag gets the old command
NextCommandStale(current, answer) == current

\* line 422: cmd = c
NextCommand(current, answer) == answer.val

\* lines 416-428, one iteration
PostTestAction ==
    /\ pc = "post"
    /\ idx <= Len(custom)
    /\ LET flag == custom[idx]
           answer == PostAnswer(flag, cmd)
       IN /\ CASE answer.tag = "Some" ->
                    /\ cmd' = NextCommand(cmd, answer)
                    /\ idx' = idx + 1
                    /\ UNCHANGED <<pc, result>>
               [] answer.tag = "None" ->
                    /\ pc' = "done"
                    /\ result' = RetOk("Ok")
                    /\ UNCHANGED <<cmd, idx>>
               [] answer.tag = "Err" ->
                    /\ ReturnErr(PostErrored(cmd, flag))
                    /\ UNCHANGED <<cmd, idx>>
          /\ log' = Append(log, PostEvent(flag, cmd, answer))
    /\ UNCHANGED <<configVars, output_conflict_handling, fs, entry, runs,
                   out_dir, aux_outcome, extra_args, output, diagnostics,
                   matcherVars, errors, checks_run, ctr_ret>>

\* line 429
FinishTest ==
    /\ pc = "post"
    /\ idx > Len(custom)
    /\ pc' = "done"
    /\ result' = RetOk("Ok")
    /\ UNCHANGED <<configVars, output_conflict_handling, fs, entry, idx,
                   runVars, matcherVars, errors, checks_run, ctr_ret>>

Next ==
    \/ PatchOutDir
    \/ BuildAuxFile
    \/ BuildCommand
    \/ RunCommand
    \/ CheckTestResult
    \/ CheckStderr
    \/ CheckStdout
    \/ ForeignPattern
    \/ ResolvePrefix
    \/ MatchDirective
    \/ FinishAnnotations
    \/ ReturnResult
    \/ PostTestAction
    \/ FinishTest

\* The aux_builds and custom flags a test can carry
AuxBuilds ==
    {[path |-> <<"a.rs">>, line |-> 1], [path |-> <<"..", "b.rs">>, line |-> 2]}
\* At most n custom flags, the i-th under the i-th name of the mapping
FlagNames == <<"f", "g", "h", "i">>
CustomLists(n) ==
    { [i \in 1..Len(q) |-> [name |-> FlagNames[i], post |-> q[i]]] :
        q \in SeqsUpTo(PostActions, n) }
ResolveResults(kind, values) ==
    {Ok(v) : v \in values} \cup {Err(FindOneErrored(kind))}

\* A call of run_test: either a test whose command takes building, or a
\* test whose result takes checking
Init ==
    /\ stderr_per_bitwidth = FALSE
    /\ normalize_stderr = <<[from |-> "a", to |-> <<"b">>]>>
    /\ normalize_stdout = <<>>
    /\ \/ /\ revision \in {<<>>, <<"r">>}
          /\ \/ target = None /\ host_matches_target = TRUE
             \/ target = Some(<<"t">>) /\ host_matches_target \in BOOLEAN
          /\ \/ compile_flags = <<>> /\ env_vars = <<>> /\ stdin_exists = FALSE
             \/ /\ compile_flags = <<(<<"-O">>), (<<"-g">>)>>
                /\ env_vars = <<[name |-> "K", value |-> "1"],
                                [name |-> "L", value |-> "2"],
                                [name |-> "K", value |-> "3"]>>
                /\ stdin_exists = TRUE
          /\ aux_builds \in SeqsUpTo(AuxBuilds, MaxAux)
          /\ custom \in CustomLists(MaxFlags)
          /\ output_conflict_handling = "Ignore"
          /\ error_in_other_files = <<>>
          /\ error_matches = <<>>
          /\ mode_result = Ok(Pass)
          /\ prefix_result = Ok(None)
          /\ level_result = Ok(None)
          /\ fs = [path \in BaselinePaths |-> None]
       \/ /\ revision = <<>>
          /\ target = None
          /\ host_matches_target = TRUE
          /\ compile_flags = <<>>
          /\ env_vars = <<>>
          /\ stdin_exists = FALSE
          /\ aux_builds = <<>>
          /\ custom = <<>>
          /\ output_conflict_handling \in Policies
          /\ error_in_other_files \in ForeignLists(1)
          /\ error_matches \in ErrorMatchLists(1, 1)
          /\ mode_result \in ResolveResults("mode", Modes)
          /\ prefix_result \in ResolveResults("diagnostic_code_prefix",
                                              {Some(<<"p">>)})
          /\ level_result \in ResolveResults("require_annotations_for_level",
                                             {None})
          /\ fs \in {[path \in BaselinePaths |-> f] : f \in {None, Some(<<"a">>)}}
    /\ entry = "run_test"
    /\ pc = "patch_out_dir"
    /\ idx = 1
    /\ runs = <<>>
    /\ log = <<>>
    /\ out_dir = ConfiguredOutDir
    /\ aux_outcome = NoOutcome
    /\ extra_args = <<>>
    /\ cmd = NoCommand
    /\ output = NoOutput
    /\ diagnostics = [rendered |-> <<>>, messages |-> <<>>,
                      messages_from_unknown_file_or_line |-> <<>>]
    /\ messages = <<>>
    /\ messages_from_unknown_file_or_line = <<>>
    /\ errors = <<>>
    /\ checks_run = {}
    /\ seen_error_match = None
    /\ diagnostic_code_prefix = <<>>
    /\ lowest_annotation_level = Error
    /\ required_annotation_level = None
    /\ ctr_ret = NotReturned
    /\ result = NotReturned

Spec == Init /\ [][Next]_vars

(***************************************************************************)
(* Properties of run_test's error handling.                                *)
(***************************************************************************)
AllChecks == {"status", "stderr", "stdout", "annotations"}
ProcessRan == entry = "run_test" /\ output.status # "none"
Resolved == mode_result.ok /\ prefix_result.ok /\ level_result.ok
HasKind(errs, kind) == \E i \in DOMAIN errs : errs[i].kind = kind

\* The first resolution that fails, in the order the code asks for them
\* (lines 206, 257, 331)
FirstUnresolved ==
    IF ~mode_result.ok THEN mode_result.val
    ELSE IF ~prefix_result.ok THEN prefix_result.val
    ELSE level_result.val

\* C8 as stated: once the process has been run, all four checks complete and
\* every recorded error is in the final error list, whatever fails to
\* resolve.
C8_NoCheckAborts ==
    (ProcessRan /\ pc = "done") =>
        /\ checks_run = AllChecks
        /\ errors # <<>> => /\ ctr_ret.tag = "Err"
                            /\ ctr_ret.val.errors = errors

\* C8, amended: once the process has been run, all four checks complete and
\* check_test_result returns exactly the errors they recorded, provided the
\* mode, the diagnostic-code prefix and the required-annotation level all
\* resolve. A mode that fails to resolve ends check_test_result before any
\* check; a prefix or level that fails to resolve ends it after the
\* exit-status check and both reconciliations, inside the matcher, and what
\* is returned is the resolution's failure, not the errors recorded so far.
C8_ChecksCompleteIfResolved ==
    (ProcessRan /\ pc \in {"post", "done"}) =>
        IF Resolved
        THEN /\ checks_run = AllChecks
             /\ \/ errors = <<>> /\ ctr_ret.tag = "Ok"
                \/ /\ errors # <<>>
                   /\ ctr_ret.tag = "Err"
                   /\ ctr_ret.val.errors = errors
        ELSE /\ ctr_ret.tag = "Err"
             /\ ctr_ret.val = FirstUnresolved
             /\ checks_run = IF mode_result.ok
                             THEN {"status", "stderr", "stdout"}
                             ELSE {}

\* Every check has recorded an error and check_test_result has returned
\* them all
C8_Witness ==
    /\ ProcessRan
    /\ pc = "done"
    /\ Resolved
    /\ checks_run = AllChecks
    /\ HasKind(errors, "ExitStatus")
    /\ HasKind(errors, "OutputDiffers")
    /\ HasKind(errors, "PatternNotFound")
    /\ HasKind(errors, "ErrorsWithoutPattern")
    /\ ctr_ret.tag = "Err"
    /\ Len(ctr_ret.val.errors) >= 4

AuxFailed ==
    /\ entry = "run_test"
    /\ pc = "done"
    /\ ~aux_outcome.canonicalize.ok \/ ~aux_outcome.build.ok

\* C9 as stated: a failure to canonicalize and a failure of the build both
\* end the test with exactly one Aux error carrying the aux path and the
\* directive's line.
C9_AuxWrapsBoth ==
    AuxFailed =>
        /\ result.tag = "Err"
        /\ Len(result.val.errors) = 1
        /\ result.val.errors[1].kind = "Aux"
        /\ result.val.errors[1].path = aux_outcome.aux_file
        /\ result.val.errors[1].line = aux_outcome.line

\* C9, amended: a failure of the coordinator's build ends the test with one
\* Aux error carrying the aux path, the directive's line and the build's
\* error list, and with the build's command, stdout and stderr; a failure to
\* canonicalize ends the test with an empty error list, no Aux error, the
\* I/O error's text as stderr and an empty stdout.
C9_AuxWrapsBuildFailure ==
    AuxFailed =>
        /\ result.tag = "Err"
        /\ aux_outcome.aux_file = AuxFile(aux_builds[idx])
        /\ IF aux_outcome.canonicalize.ok
           THEN /\ result.val.errors =
                      <<AuxError(aux_outcome.aux_file,
                                 aux_outcome.build.val.errors,
                                 aux_builds[idx].line)>>
                /\ result.val.command = aux_outcome.build.val.command
                /\ result.val.stderr = aux_outcome.build.val.stderr
                /\ result.val.stdout = aux_outcome.build.val.stdout
           ELSE /\ result.val.errors = <<>>
                /\ result.val.command =
                      CommandNew(<<"canonicalizing path">> \o aux_outcome.aux_file)
                /\ result.val.stderr = aux_outcome.canonicalize.val
                /\ result.val.stdout = <<>>

\* The second aux build, of a path under the aux directory's parent, has
\* failed in the coordinator with errors and captured output of its own
C9_Witness ==
    /\ AuxFailed
    /\ idx = 2
    /\ aux_outcome.canonicalize.ok
    /\ aux_outcome.aux_file = <<"tests", "..", "b.rs">>
    /\ aux_outcome.build.val.errors # <<>>
    /\ aux_outcome.build.val.stdout # <<>>
    /\ result.val.stdout # <<>>

\* check_test_result has just returned to run_test
JustReturned ==
    /\ entry = "run_test"
    /\ \/ pc = "post" /\ idx = 1
       \/ pc = "done" /\ ctr_ret.tag = "Err"

\* C10 as stated: check_test_result returns the command and the output
\* exactly when no check recorded an error, and otherwise a failure with the
\* command, every recorded error and the run's stdout and stderr.
C10_SuccessIffNoErrors ==
    JustReturned =>
        IF errors = <<>>
        THEN ctr_ret.tag = "Ok" /\ ctr_ret.val = <<cmd, output>>
        ELSE /\ ctr_ret.tag = "Err"
             /\ ctr_ret.val.command = cmd
             /\ ctr_ret.val.errors = errors
             /\ ctr_ret.val.stdout = output.stdout
             /\ ctr_ret.val.stderr \in {output.stderr, diagnostics.rendered}

\* C10, amended: when the mode, the prefix and the level resolve,
\* check_test_result returns the command and the output exactly when no check
\* recorded an error, and otherwise a failure with the command, every
\* recorded error in order, the captured stdout and, as stderr, the text
\* rustc_stderr::process rendered from the captured stderr. When one of them
\* does not resolve it returns that resolution's failure instead, whether or
\* not a check recorded an error.
C10_ResultBundle ==
    JustReturned =>
        IF Resolved
        THEN IF errors = <<>>
             THEN ctr_ret.tag = "Ok" /\ ctr_ret.val = <<cmd, output>>
             ELSE /\ ctr_ret.tag = "Err"
                  /\ ctr_ret.val = [command |-> cmd, errors |-> errors,
                                    stderr |-> diagnostics.rendered,
                                    stdout |-> output.stdout]
        ELSE ctr_ret.tag = "Err" /\ ctr_ret.val = FirstUnresolved

\* A failure that bundles two errors, a stdout and a rendered stderr that
\* differ from each other and from the raw stderr
C10_Witness ==
    /\ JustReturned
    /\ Resolved
    /\ ctr_ret.tag = "Err"
    /\ Len(ctr_ret.val.errors) = 2
    /\ ctr_ret.val.stderr # output.stderr
    /\ ctr_ret.val.stderr # <<>>
    /\ ctr_ret.val.stdout = <<>>
    /\ ctr_ret.val.command.args # <<>>

(***************************************************************************)
(* Properties of build_command.                                            *)
(***************************************************************************)
\* What the coordinator answered for every aux build, in directive order
RECURSIVE ExpectedAuxArgs(_)
ExpectedAuxArgs(auxes) ==
    IF auxes = <<>> THEN <<>>
    ELSE ExternArgs(AuxKey(AuxFile(Head(auxes)))) \o ExpectedAuxArgs(Tail(auxes))

ExpectedCfg == IF revision = <<>> THEN <<>> ELSE <<(<<"--cfg=">> \o revision)>>
ExpectedCustom == [i \in 1..Len(custom) |-> <<"--flag", custom[i].name>>]
ExpectedTarget ==
    IF target = None \/ host_matches_target
    THEN <<>>
    ELSE <<(<<"--target">>), target[1]>>
LastOf(name) ==
    CHOOSE i \in DOMAIN env_vars :
        /\ env_vars[i].name = name
        /\ \A j \in DOMAIN env_vars : env_vars[j].name = name => j <= i

\* C11: the command build_command returns has, in this order, the program's
\* invocation, the aux builds' extra arguments in directive order, the
\* tested file, --cfg=<revision> iff the revision is non-empty, the compile
\* flags in order, the custom flags' contributions in order, and --target
\* <target> iff a target is configured and differs from the host; its
\* environment holds every configured name with the value of its last
\* occurrence.
C11_CommandOrder ==
    (entry = "run_test" /\ pc = "run_command") =>
        /\ cmd.args = ProgramArgs(ConfiguredOutDir \o <<"tests">>)
                        \o ExpectedAuxArgs(aux_builds)
                        \o <<TestedFile>>
                        \o ExpectedCfg
                        \o compile_flags
                        \o ExpectedCustom
                        \o ExpectedTarget
        /\ DOMAIN cmd.envs = {env_vars[i].name : i \in DOMAIN env_vars}
        /\ \A name \in DOMAIN cmd.envs :
              cmd.envs[name] = env_vars[LastOf(name)].value

\* A command built from two aux builds, a revision, two compile flags, two
\* custom flags, a target other than the host and a repeated variable
C11_Witness ==
    /\ entry = "run_test"
    /\ pc = "run_command"
    /\ Len(aux_builds) = 2
    /\ aux_builds[1] # aux_builds[2]
    /\ revision # <<>>
    /\ Len(compile_flags) = 2
    /\ Len(custom) = 2
    /\ target # None
    /\ ~host_matches_target
    /\ Len(cmd.args) = 15
    /\ cmd.envs["K"] = "3"

(***************************************************************************)
(* Properties of run_test's order of steps.                                *)
(***************************************************************************)
Steps(op) == {i \in DOMAIN log : log[i].op = op}

\* C12: in every execution of run_test the output directory is rewritten
\* exactly once, as the first step: before any aux build is requested and
\* before the process is run; no later step rewrites it again, so from then
\* on it is the configured directory extended by the tested file's parent.
C12_PatchedOnce ==
    entry = "run_test" =>
        IF pc = "patch_out_dir"
        THEN log = <<>> /\ out_dir = ConfiguredOutDir
        ELSE /\ Steps("patch_out_dir") = {1}
             /\ \A i \in Steps("build") \cup Steps("run_command") : i > 1
             /\ out_dir = ConfiguredOutDir \o <<"tests">>

\* A test that built two aux files, ran, was checked and went through two
\* post actions, each replacing the command
C12_Witness ==
    /\ entry = "run_test"
    /\ pc = "done"
    /\ Cardinality(Steps("build")) = 2
    /\ Cardinality(Steps("run_command")) = 1
    /\ Cardinality(Steps("post_test_action")) = 2
    /\ out_dir = <<"target", "ui", "tests">>

(***************************************************************************)
(* Properties of the directive pass, step by step.                         *)
(***************************************************************************)
\* The directive pass is about to process a directive of this kind
AtDirective(kind) ==
    /\ pc = "ann_matches"
    /\ idx <= Len(error_matches)
    /\ error_matches[idx].kind = kind

\* The bucket of line L, empty when messages.get_mut(L) is None
BucketOf(buckets, L) == IF L < Len(buckets) THEN buckets[L + 1] ELSE <<>>

\* b without its k-th message
Without(b, k) == [j \in 1..(Len(b) - 1) |-> IF j < k THEN b[j] ELSE b[j + 1]]

Least(S) == CHOOSE i \in S : \A j \in S : i <= j

\* The places in bucket b of the messages a Pattern directive asks for
PatternHits(b, d) ==
    {i \in DOMAIN b : Matches(d.pattern, b[i].message) /\ b[i].level = d.level}

\* C13: a step that processes a Pattern directive at line L removes the first
\* message of bucket L whose text matches and whose level equals the
\* directive's, and records nothing, when there is such a message; otherwise
\* (no bucket L, or no such message) it records PatternNotFound with
\* expected_line L and leaves every bucket as it was.
C13_PatternDirective ==
    [][AtDirective("Pattern") =>
         LET d == error_matches[idx]
             hits == PatternHits(BucketOf(messages, d.line), d)
         IN IF hits # {}
            THEN /\ messages' = [messages EXCEPT ![d.line + 1] =
                                    Without(messages[d.line + 1], Least(hits))]
                 /\ errors' = errors
            ELSE /\ messages' = messages
                 /\ errors' = Append(errors,
                                 PatternNotFound(d.pattern, d.span, Some(d.line)))
      ]_vars

\* A Pattern directive for a Warn message has passed over an Error message
\* with a matching text and removed the Warn message behind it
C13_Witness ==
    /\ entry = "check_annotations"
    /\ pc = "ann_matches"
    /\ idx = 2
    /\ error_matches[1].kind = "Pattern"
    /\ error_matches[1].level = Warn
    /\ error_matches[1].line = 1
    /\ Len(diagnostics.messages) > 1
    /\ Len(diagnostics.messages[2]) = 2
    /\ diagnostics.messages[2][1].level = Error
    /\ Matches(error_matches[1].pattern, diagnostics.messages[2][1].message)
    /\ messages[2] = <<diagnostics.messages[2][1]>>
    /\ ~HasKind(errors, "PatternNotFound")

\* The places in bucket b of the Error messages with exactly this code
CodeHits(b, full_code) ==
    {i \in DOMAIN b : b[i].level = Error /\ b[i].code = Some(full_code)}

\* C14: a step that processes a Code directive with code C at line L removes
\* the first message of bucket L that has level Error and the code "prefix
\* followed by C", and records nothing, when there is such a message (one
\* without a code, of another level, or with a code that does not start with
\* the prefix is never taken); otherwise it records CodeNotFound with the
\* code "prefix followed by C" and expected_line L, and no bucket changes.
C14_CodeDirective ==
    [][AtDirective("Code") =>
         LET d == error_matches[idx]
             full_code == ConfiguredPrefix \o d.code
             hits == CodeHits(BucketOf(messages, d.line), full_code)
         IN IF hits # {}
            THEN /\ messages' = [messages EXCEPT ![d.line + 1] =
                                    Without(messages[d.line + 1], Least(hits))]
                 /\ errors' = errors
            ELSE /\ messages' = messages
                 /\ errors' = Append(errors,
                                 CodeNotFound(full_code, d.span, Some(d.line)))
      ]_vars

\* A Code directive has passed over a Warn message that carries the code and
\* removed the Error message behind it
C14_Witness ==
    /\ entry = "check_annotations"
    /\ pc = "ann_matches"
    /\ idx = 2
    /\ error_matches[1].kind = "Code"
    /\ error_matches[1].line = 1
    /\ Len(diagnostics.messages) > 1
    /\ Len(diagnostics.messages[2]) = 2
    /\ diagnostics.messages[2][1].level = Warn
    /\ diagnostics.messages[2][1].code = diagnostics.messages[2][2].code
    /\ messages[2] = <<diagnostics.messages[2][1]>>
    /\ ~HasKind(errors, "CodeNotFound")

\* A message whose code ends with the directive's code but lacks the
\* configured prefix is left alone and CodeNotFound names the full code
C14_WitnessNoPrefix ==
    /\ entry = "check_annotations"
    /\ pc = "ann_matches"
    /\ idx = 2
    /\ prefix_result = Ok(Some(<<"q">>))
    /\ error_matches[1].kind = "Code"
    /\ error_matches[1].line = 1
    /\ Len(messages) > 1
    /\ Len(messages[2]) = 1
    /\ messages[2][1].level = Error
    /\ messages[2][1].code = Some(<<"p", "E">>)
    /\ \E i \in DOMAIN errors :
          errors[i].kind = "CodeNotFound" /\ errors[i].code = <<"q", "E">>

\* The least level of the Pattern directives among the first n, Error when
\* there is none
LeastLevelUpTo(n) ==
    LET ls == {error_matches[i].level :
                  i \in {j \in 1..n : error_matches[j].kind = "Pattern"}}
              \cup {Error}
    IN CHOOSE l \in ls : \A k \in ls : l <= k

\* C15: lowest_annotation_level is Error through the foreign-file patterns
\* and, in the directive pass, the least level of the Pattern directives
\* processed so far, found or not (Error when there is none), so it never
\* increases and Code directives never change it; the level the
\* exhaustiveness filter uses is the configured override when there is one
\* and otherwise that least level over all Pattern directives.
C15_EffectiveLevel ==
    /\ pc = "ann_foreign" => lowest_annotation_level = Error
    /\ pc = "ann_matches" => lowest_annotation_level = LeastLevelUpTo(idx - 1)
    /\ required_annotation_level # None =>
          required_annotation_level[1] =
              IF level_result.val # None
              THEN level_result.val[1]
              ELSE LeastLevelUpTo(Len(error_matches))

\* With no override, a Warn directive that found nothing, followed by a Code
\* directive, has set the filter's level to Warn
C15_Witness ==
    /\ entry = "check_annotations"
    /\ pc = "done"
    /\ level_result = Ok(None)
    /\ Len(error_matches) = 2
    /\ error_matches[1].kind = "Pattern"
    /\ error_matches[1].level = Warn
    /\ error_matches[2].kind = "Code"
    /\ HasKind(errors, "PatternNotFound")
    /\ required_annotation_level = Some(Warn)
    /\ HasKind(errors, "ErrorsWithoutPattern")

\* The places in the list of the messages a foreign-file pattern matches
ForeignHits(msgs, pattern) ==
    {i \in DOMAIN msgs : Matches(pattern, msgs[i].message)}

\* b is left as it was, or has lost exactly one message
SameOrOneLess(b, after) ==
    after = b \/ \E k \in DOMAIN b : after = Without(b, k)

\* C16: every foreign-file pattern is processed before any line-anchored
\* directive; a step that processes a foreign-file pattern leaves every line
\* bucket as it was and removes from the unknown-line list its first
\* matching message, if any, and nothing else; a step that processes a
\* directive at line L leaves the unknown-line list and every other bucket
\* as they were and removes at most one message from bucket L.
C16_NoInterference ==
    [][/\ (pc = "ann_foreign" /\ idx <= Len(error_in_other_files)) =>
            LET hits == ForeignHits(messages_from_unknown_file_or_line,
                                    error_in_other_files[idx].pattern)
            IN /\ messages' = messages
               /\ messages_from_unknown_file_or_line' =
                     IF hits = {}
                     THEN messages_from_unknown_file_or_line
                     ELSE Without(messages_from_unknown_file_or_line, Least(hits))
       /\ (pc = "ann_matches" /\ idx <= Len(error_matches)) =>
            LET L == error_matches[idx].line
            IN /\ messages_from_unknown_file_or_line' =
                     messages_from_unknown_file_or_line
               /\ Len(messages') = Len(messages)
               /\ \A i \in DOMAIN messages :
                     IF i = L + 1
                     THEN SameOrOneLess(messages[i], messages'[i])
                     ELSE messages'[i] = messages[i]
       /\ pc' = "ann_matches" /\ pc # "ann_matches" =>
            pc = "ann_foreign" /\ idx > Len(error_in_other_files)
       /\ pc = "ann_matches" => pc' # "ann_foreign"
      ]_vars

\* A foreign-file pattern found nothing in the unknown-line list although a
\* message of line 1 matches it, and a directive then removed that message
\* although the unknown-line message satisfies the directive too
C16_Witness ==
    /\ entry = "check_annotations"
    /\ pc = "ann_matches"
    /\ idx = 2
    /\ Len(error_in_other_files) = 1
    /\ error_matches[1].kind = "Pattern"
    /\ error_matches[1].line = 1
    /\ Len(diagnostics.messages) > 1
    /\ Len(diagnostics.messages[2]) = 1
    /\ Matches(error_in_other_files[1].pattern, diagnostics.messages[2][1].message)
    /\ errors = <<PatternNotFound(error_in_other_files[1].pattern,
                                  error_in_other_files[1].span, None)>>
    /\ messages[2] = <<>>
    /\ Len(messages_from_unknown_file_or_line) = 1
    /\ messages_from_unknown_file_or_line =
          diagnostics.messages_from_unknown_file_or_line
    /\ Satisfies(messages_from_unknown_file_or_line[1], error_matches[1])

\* The messages the ErrorsWithoutPattern entries of one location carry, in
\* the order of the error list
RECURSIVE ReportedIn(_, _)
ReportedIn(es, path) ==
    IF es = <<>> THEN <<>>
    ELSE (IF IsEWP(Head(es)) /\ Head(es).path = path THEN Head(es).msgs ELSE <<>>)
         \o ReportedIn(Tail(es), path)
Reported(path) == ReportedIn(errors, path)

\* a is b with some elements left out, the others in b's order
RECURSIVE IsSubseq(_, _)
IsSubseq(a, b) ==
    IF a = <<>> THEN TRUE
    ELSE IF b = <<>> THEN FALSE
    ELSE IF Head(a) = Head(b) THEN IsSubseq(Tail(a), Tail(b))
    ELSE IsSubseq(a, Tail(b))

\* The messages of a list at or above the effective required level
Required(msgs) == SelectSeq(msgs, LAMBDA msg : msg.level >= EffectiveLevel)

\* What is left of every location is what was there on entry, less the
\* messages removed, in the original order; and the messages reported for a
\* location are never more than what is left of it
NeverConsumedAndReported ==
    /\ IsSubseq(messages_from_unknown_file_or_line,
                diagnostics.messages_from_unknown_file_or_line)
    /\ Len(Reported(None)) <= Len(messages_from_unknown_file_or_line)
    /\ IsSubseq(Reported(None), messages_from_unknown_file_or_line)
    /\ Len(messages) = Len(diagnostics.messages)
    /\ \A i \in DOMAIN messages :
          /\ IsSubseq(messages[i], diagnostics.messages[i])
          /\ IsSubseq(Reported(LinePath(i - 1)), messages[i])

\* The reported messages of every location are the unremoved messages of
\* that location at or above the effective level, in their order
ReportedAreLeftovers ==
    /\ Reported(None) = Required(messages_from_unknown_file_or_line)
    /\ \A i \in DOMAIN messages :
          Reported(LinePath(i - 1)) = Required(messages[i])

\* The statement without the restriction on the mode: whenever
\* check_annotations has returned, the reported messages are the unremoved
\* messages at or above the effective level.
C17_ReportedExactly ==
    /\ entry = "check_annotations" => NeverConsumedAndReported
    /\ AnnotationsReturned => ReportedAreLeftovers

\* C17: no message is both consumed and reported. At every point of
\* check_annotations what is left at a location is a subsequence of what was
\* there on entry and the ErrorsWithoutPattern entries of the location carry
\* a subsequence of what is left; when check_annotations has returned in a
\* mode other than Yolo they carry exactly the unremoved messages at or above
\* the effective level, in the original order; in Yolo mode they carry
\* nothing.
C17_ReportedExactlyUnlessYolo ==
    /\ entry = "check_annotations" => NeverConsumedAndReported
    /\ (AnnotationsReturned /\ mode_result.val.name # "Yolo") =>
          ReportedAreLeftovers
    /\ (AnnotationsReturned /\ mode_result.val.name = "Yolo") =>
          Count(errors, IsEWP) = 0

\* A foreign-file pattern removed one of the two unknown-line messages and
\* the other one was reported
C17_Witness ==
    /\ AnnotationsReturned
    /\ mode_result.val.name # "Yolo"
    /\ Len(diagnostics.messages_from_unknown_file_or_line) = 2
    /\ Len(messages_from_unknown_file_or_line) = 1
    /\ Reported(None) = messages_from_unknown_file_or_line
    /\ EWPCount(None) = 1

\* Bucket 0 was empty (or absent) when check_annotations was entered
SentinelRespected ==
    Len(diagnostics.messages) >= 1 => diagnostics.messages[1] = <<>>

\* C18: when bucket 0 is empty on entry it is empty at every point of
\* check_annotations: there are as many buckets as on entry and none holds
\* more messages than on entry, every directive's line is at least 1, and
\* the run never ends in the panic of line 355.
C18_Line0StaysEmpty ==
    (entry = "check_annotations" /\ SentinelRespected) =>
        /\ Len(messages) = Len(diagnostics.messages)
        /\ \A i \in DOMAIN messages :
              Len(messages[i]) <= Len(diagnostics.messages[i])
        /\ Len(messages) >= 1 => messages[1] = <<>>
        /\ \A i \in DOMAIN error_matches : error_matches[i].line >= 1
        /\ result.tag # "Panic"

\* The exhaustiveness check has run over a sequence whose line 1 lost a
\* message to a directive and line 2 had its message reported
C18_Witness ==
    /\ AnnotationsReturned
    /\ mode_result.val.name # "Yolo"
    /\ Len(messages) = 3
    /\ messages[1] = <<>>
    /\ Len(diagnostics.messages[2]) = 1
    /\ messages[2] = <<>>
    /\ EWPCount(LinePath(2)) = 1
    /\ EWPCount(LinePath(0)) = 0

\* The places of the post actions in the history, and the k-th of them
PostSteps == Steps("post_test_action")
KthPost(k) ==
    CHOOSE i \in PostSteps : Cardinality({j \in PostSteps : j <= i}) = k

\* Every step of the first kind comes before every step of the second
Before(first, second) ==
    \A i \in Steps(first) : \A j \in Steps(second) : i < j

\* C19: in run_test the command is built, then the process is run, then the
\* result is checked, then the post actions are invoked, each of the first
\* three once at most and none without the one before it; post actions are
\* invoked only after a result check that recorded no error; the k-th
\* invocation is that of the k-th custom flag, the first receives the
\* command the result check returned and every later one the command the
\* one before it returned; an invocation that returns no replacement or an
\* error is the last one, and the test then ends as passed, respectively
\* with that error; when every flag returned a replacement the test ends as
\* passed.
C19_RunTestOrder ==
    entry = "run_test" =>
        /\ Cardinality(Steps("build_command")) <= 1
        /\ Cardinality(Steps("run_command")) <= 1
        /\ Cardinality(Steps("check_test_result")) <= 1
        /\ Before("build_command", "run_command")
        /\ Before("run_command", "check_test_result")
        /\ Before("check_test_result", "post_test_action")
        /\ Steps("run_command") # {} => Steps("build_command") # {}
        /\ Steps("check_test_result") # {} => Steps("run_command") # {}
        /\ PostSteps # {} =>
              /\ Steps("check_test_result") # {}
              /\ errors = <<>>
              /\ ctr_ret.tag = "Ok"
        /\ Cardinality(PostSteps) <= Len(custom)
        /\ \A k \in 1..Cardinality(PostSteps) :
              LET e == log[KthPost(k)]
              IN /\ e.name = custom[k].name
                 /\ e.cmd = IF k = 1 THEN ctr_ret.val[1]
                            ELSE log[KthPost(k - 1)].ret.val
                 /\ k > 1 => log[KthPost(k - 1)].ret.tag = "Some"
                 /\ e.ret.tag = "None" =>
                       /\ KthPost(k) = Len(log)
                       /\ pc = "done"
                       /\ result = RetOk("Ok")
                 /\ e.ret.tag = "Err" =>
                       /\ KthPost(k) = Len(log)
                       /\ pc = "done"
                       /\ result = RetErr(PostErrored(e.cmd, custom[k]))
        /\ (pc = "done" /\ ctr_ret.tag = "Ok"
              /\ \A i \in PostSteps : log[i].ret.tag = "Some") =>
              /\ Cardinality(PostSteps) = Len(custom)
              /\ result = RetOk("Ok")

\* A test whose first flag replaced the command and whose second flag got
\* the replacement and finalized the test
C19_Witness ==
    /\ entry = "run_test"
    /\ pc = "done"
    /\ Len(custom) = 2
    /\ Cardinality(PostSteps) = 2
    /\ log[KthPost(1)].ret.tag = "Some"
    /\ log[KthPost(2)].ret.tag = "None"
    /\ log[KthPost(2)].cmd # log[KthPost(1)].cmd
    /\ log[KthPost(2)].cmd = cmd
    /\ result = RetOk("Ok")

====
